---------------------------- MODULE Spec2Model ----------------------------
(***************************************************************************)
(* Network connection manager of the B-U585I-IOT02A reference integration  *)
(* (Projects/B-U585I-IOT02A/tz_disabled/Src/app_main.c, second half: the   *)
(* network thread net_main and its helpers).                               *)
(*                                                                         *)
(* Execution contexts:                                                     *)
(*   - the manager task (net_main), position in pc;                        *)
(*   - the control-plane context delivering vMxStatusNotify, position in   *)
(*     cpPc (the field write and the notification are two steps);          *)
(*   - the TCP/IP thread (ready callback, DHCP binding an address);        *)
(*   - any context calling net_request_reconnect.                          *)
(*                                                                         *)
(* The task-notification mailbox at index NET_EVT_IDX is the pair          *)
(* (ulNotifiedValue, ucNotifyState) of the FreeRTOS kernel.  Time is       *)
(* abstract: a deadline is a flag that the passage of time sets.           *)
(***************************************************************************)
EXTENDS Naturals, FiniteSets

(***************************************************************************)
(* MxStatus_t, in the order of the switch of pcMxStatusToString.           *)
(***************************************************************************)
MX_STATUS_NONE == 0
MX_STATUS_STA_DOWN == 1
MX_STATUS_STA_UP == 2
MX_STATUS_STA_GOT_IP == 3
MX_STATUS_AP_DOWN == 4
MX_STATUS_AP_UP == 5

\* Largest status value of the model; values above MX_STATUS_AP_UP are the
\* unrecognized ones.
MaxStatusValue == 6

StatusValues == 0 .. MaxStatusValue

\* Largest address of the model; 0 is "no address".
MaxAddr == 1

\* Number of status notifications the control plane delivers in a run.
MaxStatusEvents == 2

\* Number of calls of net_request_reconnect in a run.
MaxReconnects == 1

(***************************************************************************)
(* Notification bits (lines 246-253).  UNUSED stands for the 24 bits of    *)
(* 0xFFFFFFFF that no producer ever sets.                                  *)
(***************************************************************************)
NET_LWIP_READY_BIT == "READY"
NET_LWIP_IP_CHANGE_BIT == "IP_CHANGE"
NET_LWIP_IFUP_BIT == "IFUP"
NET_LWIP_IFDOWN_BIT == "IFDOWN"
NET_LWIP_LINK_UP_BIT == "LINK_UP"
NET_LWIP_LINK_DOWN_BIT == "LINK_DOWN"
MX_STATUS_UPDATE_BIT == "STATUS"
ASYNC_REQUEST_RECONNECT_BIT == "RECONNECT"

Flags ==
    { NET_LWIP_READY_BIT, NET_LWIP_IP_CHANGE_BIT, NET_LWIP_IFUP_BIT,
      NET_LWIP_IFDOWN_BIT, NET_LWIP_LINK_UP_BIT, NET_LWIP_LINK_DOWN_BIT,
      MX_STATUS_UPDATE_BIT, ASYNC_REQUEST_RECONNECT_BIT }

AllBits == Flags \cup {"UNUSED"}

NETIF_FLAG_UP == "UP"
NETIF_FLAG_LINK_UP == "LINK_UP"

VARIABLES
    pc,               \* position of the manager task in net_main
    waitCaller,       \* call site of ulWaitForNotifyBits: ready | status | main
    connRet,          \* call site of xConnectToAP: top | recon | reconn
    xNetTaskHandle,   \* "NULL" or "net"
    ulNotifiedValue,  \* kernel: pending notification bits of the manager task
    ucNotifyState,    \* kernel: NOT_WAITING | WAITING | RECEIVED
    acc,              \* ulNotifyValueAccumulate of the wait in progress
    expInner,         \* the deadline of ulWaitForNotifyBits has elapsed
    expOuter,         \* the deadline of xWaitForMxStatus has elapsed
    wResult,          \* value just returned by ulWaitForNotifyBits
    sResult,          \* value returned by xWaitForMxStatus to xConnectToAP
    xResult,          \* xResult of the main loop
    xStatus,          \* xCtx.xStatus
    cEntry,           \* status read by xConnectToAP at line 473
    cResult,          \* value just returned by xConnectToAP
    threads,          \* threads started so far
    cpPc,             \* control-plane context inside vMxStatusNotify
    lwipReadyDue,     \* tcpip_init accepted the ready callback, not yet run
    netifFlags,       \* pxNetif->flags
    ipAddr,           \* pxNetif->ip_addr.addr
    dhcpActive,       \* address acquisition running on the interface
    xLastFlags,       \* static of vLwipStatusCallback
    xLastAddr,        \* static of vLwipStatusCallback
    statusEvents,     \* calls of vMxStatusNotify so far
    reconnectCalls,   \* calls of net_request_reconnect so far
    unobserved,       \* history: flags set by producers, not yet observed
    supplied,         \* history: flags available to the wait in progress
    lastHandled,      \* history: status last given to vHandleMxStatusUpdate
    reconciled,       \* history: what lines 747-777 did in this wake:
                      \* no (not reached) | skip | connect | pair
    xErr,             \* xErr of xConnectToAP after line 482: none (mx_Connect
                      \* not called) | IPC_SUCCESS | IPC_ERROR
    xReturn,          \* value last returned by net_request_reconnect
    boot,             \* history: ready (the ready wait returned the flag),
                      \* version, mac (the query of this pass succeeded)
    ctxInitCalls,     \* calls of xInitializeContexts so far
    statusNotified    \* history: notifications raised by vMxStatusNotify

kernelVars == <<ulNotifiedValue, ucNotifyState, unobserved, supplied>>
waitVars == <<waitCaller, acc, expInner, expOuter, wResult, sResult>>
loopVars == <<connRet, xResult, cEntry, cResult, lastHandled, reconciled>>
netifVars == <<netifFlags, ipAddr, dhcpActive, xLastFlags, xLastAddr>>
envVars ==
    <<xNetTaskHandle, threads, cpPc, lwipReadyDue, statusEvents,
      reconnectCalls>>

auxVars == <<xErr, xReturn, boot, ctxInitCalls, statusNotified>>

vars ==
    <<pc, waitCaller, connRet, xNetTaskHandle, ulNotifiedValue, ucNotifyState,
      acc, expInner, expOuter, wResult, sResult, xResult, xStatus, cEntry,
      cResult, threads, cpPc, lwipReadyDue, netifFlags, ipAddr, dhcpActive,
      xLastFlags, xLastAddr, statusEvents, reconnectCalls, unobserved,
      supplied, lastHandled, reconciled, xErr, xReturn, boot, ctxInitCalls,
      statusNotified>>

(***************************************************************************)
(* ulWaitForNotifyBits (lines 295-340).                                    *)
(***************************************************************************)
\* ulTargetBits at the three call sites (lines 660, 358, 731).
TargetOf(caller) ==
    CASE caller = "ready" -> {NET_LWIP_READY_BIT}
      [] caller = "status" -> {MX_STATUS_UPDATE_BIT}
      [] OTHER -> AllBits

FiniteDeadlineAll(caller) == TRUE

\* xTicksToWait is portMAX_DELAY only at line 661.
FiniteDeadline(caller) == caller # "ready"

ulTargetBits == TargetOf(waitCaller)

WaitPcs == {"w_call", "w_wake"}

\* The deadline of xWaitForMxStatus is running.
OuterActive ==
    \/ pc \in {"s_loop", "s_chk"}
    \/ pc \in WaitPcs /\ waitCaller = "status"

\* The deadline of ulWaitForNotifyBits is running.
InnerActive == pc \in WaitPcs /\ FiniteDeadline(waitCaller)

(***************************************************************************)
(* Kernel: xTaskNotifyIndexed( task, NET_EVT_IDX, bits, eSetBits ), as     *)
(* called at lines 377, 398, 445 and 461.  ORs the bits into the value and *)
(* marks a notification as received; a task blocked in                     *)
(* xTaskNotifyWaitIndexed becomes ready.                                   *)
(***************************************************************************)
NotifySetBits(bits) ==
    /\ ulNotifiedValue' = ulNotifiedValue \cup bits
    /\ ucNotifyState' = "RECEIVED"
    /\ unobserved' = unobserved \cup bits
    /\ supplied' = IF pc \in WaitPcs THEN supplied \cup bits ELSE supplied

NoNotify == UNCHANGED kernelVars

\* The call of ulWaitForNotifyBits from one of its call sites, lines 297-306.
WaitBegin(caller) ==
    /\ waitCaller' = caller
    /\ acc' = {}
    /\ expInner' = FALSE
    /\ supplied' = unobserved
    /\ pc' = "w_call"
    /\ UNCHANGED <<ulNotifiedValue, ucNotifyState, unobserved, wResult>>

\* Line 310: ulBitsToClearOnEntry.
ClearOnEntry == {}

\* Lines 309-313, first half of xTaskNotifyWaitIndexed: block unless a
\* notification is already pending.
WaitCall ==
    /\ pc = "w_call"
    /\ IF ucNotifyState # "RECEIVED"
       THEN /\ ulNotifiedValue' = ulNotifiedValue \ ClearOnEntry
            /\ ucNotifyState' = "WAITING"
       ELSE UNCHANGED <<ulNotifiedValue, ucNotifyState>>
    /\ pc' = "w_wake"
    /\ UNCHANGED <<unobserved, supplied, waitVars, loopVars, xStatus>>
    /\ UNCHANGED <<netifVars, envVars>>
    /\ UNCHANGED auxVars

ClearOnExitAll(target) == AllBits

ClearOnExitNone(target) == {}

\* Line 311: ulBitsToClearOnExit, "clear only the target bits on return".
ClearOnExit(target) == target

WaitReturnAll(target, accumulated) == accumulated

\* Line 339.
WaitReturn(target, accumulated) == target \cap accumulated

\* Lines 306 and 322-327: the loop ends when the deadline has elapsed or all
\* target bits are accumulated.
WaitDone(target, accumulated, expired) ==
    expired \/ (accumulated \cap target) = target

\* Where ulWaitForNotifyBits returns to.
AfterWait(caller) ==
    CASE caller = "ready" -> "i_dp"
      [] caller = "status" -> "s_chk"
      [] OTHER -> "m_woke"

\* Lines 309-339, from the second half of xTaskNotifyWaitIndexed on: the task
\* runs again because it was notified or because its block time is over; the
\* value is read in both cases and cleared only when a notification was
\* received.  Then the time-out check and the loop condition; when the loop
\* ends, the self-notification (eNoAction) if bits outside the target were
\* seen, and the return.
WaitWake ==
    /\ pc = "w_wake"
    /\ \/ ucNotifyState = "RECEIVED"
       \/ FiniteDeadline(waitCaller) /\ expInner
    /\ ulNotifiedValue' =
          IF ucNotifyState = "RECEIVED"
          THEN ulNotifiedValue \ ClearOnExit(ulTargetBits)
          ELSE ulNotifiedValue
    /\ unobserved' = unobserved \ (ulNotifiedValue \cap ulTargetBits)
    /\ LET accumulated == acc \cup ulNotifiedValue
       IN  IF WaitDone(ulTargetBits, accumulated,
                       FiniteDeadline(waitCaller) /\ expInner)
           THEN /\ ucNotifyState' =
                      IF (accumulated \ ulTargetBits) # {}
                      THEN "RECEIVED"
                      ELSE "NOT_WAITING"
                /\ wResult' = WaitReturn(ulTargetBits, accumulated)
                /\ acc' = {}
                /\ pc' = AfterWait(waitCaller)
           ELSE /\ ucNotifyState' = "NOT_WAITING"
                /\ acc' = accumulated
                /\ pc' = "w_call"
                /\ UNCHANGED wResult
    /\ UNCHANGED <<supplied, waitCaller, expInner, expOuter, sResult,
                   loopVars, xStatus>>
    /\ UNCHANGED <<netifVars, envVars>>
    /\ UNCHANGED auxVars

(***************************************************************************)
(* Passage of time.  The deadline of xWaitForMxStatus starts before the    *)
(* one of the ulWaitForNotifyBits it calls and the remaining ticks are     *)
(* handed down, so the inner deadline never elapses before the outer one.  *)
(***************************************************************************)
ExpireOuter ==
    /\ OuterActive
    /\ ~expOuter
    /\ expOuter' = TRUE
    /\ UNCHANGED <<pc, kernelVars, waitCaller, acc, expInner, wResult,
                   sResult, loopVars, xStatus>>
    /\ UNCHANGED <<netifVars, envVars>>
    /\ UNCHANGED auxVars

ExpireInner ==
    /\ InnerActive
    /\ ~expInner
    /\ OuterActive => expOuter
    /\ expInner' = TRUE
    /\ UNCHANGED <<pc, kernelVars, waitCaller, acc, expOuter, wResult,
                   sResult, loopVars, xStatus>>
    /\ UNCHANGED <<netifVars, envVars>>
    /\ UNCHANGED auxVars

(***************************************************************************)
(* xWaitForMxStatus (lines 342-370).  Its only call is line 490, with      *)
(* MX_STATUS_STA_UP as the target and a finite timeout.                    *)
(***************************************************************************)
xTargetStatus == MX_STATUS_STA_UP

\* Lines 344-352: immediate return when the status is already the target.
StatusEntry ==
    /\ pc = "s_entry"
    /\ IF xStatus = xTargetStatus
       THEN /\ sResult' = "pdTRUE"
            /\ pc' = "c_ret"
       ELSE /\ pc' = "s_loop"
            /\ UNCHANGED sResult
    /\ expOuter' = FALSE
    /\ UNCHANGED <<kernelVars, waitCaller, acc, expInner, wResult, loopVars,
                   xStatus>>
    /\ UNCHANGED <<netifVars, envVars>>
    /\ UNCHANGED auxVars

\* Lines 354-359: the loop condition and the call of ulWaitForNotifyBits.
StatusLoop ==
    /\ pc = "s_loop"
    /\ IF xStatus # xTargetStatus
       THEN WaitBegin("status")
       ELSE /\ pc' = "s_ret"
            /\ UNCHANGED <<kernelVars, waitCaller, acc, expInner, wResult>>
    /\ UNCHANGED <<expOuter, sResult, loopVars, xStatus>>
    /\ UNCHANGED <<netifVars, envVars>>
    /\ UNCHANGED auxVars

\* Lines 357-366: the value returned by the wait is dropped; time-out check.
StatusCheck ==
    /\ pc = "s_chk"
    /\ wResult' = {}
    /\ supplied' = {}
    /\ pc' = IF expOuter THEN "s_ret" ELSE "s_loop"
    /\ UNCHANGED <<ulNotifiedValue, ucNotifyState, unobserved, waitCaller,
                   acc, expInner, expOuter, sResult, loopVars, xStatus>>
    /\ UNCHANGED <<netifVars, envVars>>
    /\ UNCHANGED auxVars

\* Line 369: the status is read again for the return value.
StatusReturn ==
    /\ pc = "s_ret"
    /\ sResult' = IF xStatus = xTargetStatus THEN "pdTRUE" ELSE "pdFALSE"
    /\ pc' = "c_ret"
    /\ UNCHANGED <<kernelVars, waitCaller, acc, expInner, expOuter, wResult,
                   loopVars, xStatus>>
    /\ UNCHANGED <<netifVars, envVars>>
    /\ UNCHANGED auxVars

(***************************************************************************)
(* xConnectToAP (lines 468-495).                                           *)
(***************************************************************************)
ConnectPreconditionAny(status) == TRUE

\* Lines 473-474.
ConnectPrecondition(status) ==
    status = MX_STATUS_NONE \/ status = MX_STATUS_STA_DOWN

\* A call of xConnectToAP from one of its call sites.
ConnectBegin(site) ==
    /\ connRet' = site
    /\ pc' = "c_entry"

ConnectEntry ==
    /\ pc = "c_entry"
    /\ cEntry' = xStatus
    /\ pc' = IF ConnectPrecondition(xStatus) THEN "c_mode" ELSE "c_ret"
    /\ UNCHANGED <<kernelVars, waitVars, connRet, xResult, cResult,
                   lastHandled, reconciled, xStatus>>
    /\ UNCHANGED <<netifVars, envVars>>
    /\ UNCHANGED auxVars

\* Lines 476-480: mx_SetBypassMode (its result is overwritten at line 482)
\* and the two reads of the configuration store.
ConnectMode ==
    /\ pc = "c_mode"
    /\ pc' = "c_conn"
    /\ UNCHANGED <<kernelVars, waitVars, loopVars, xStatus>>
    /\ UNCHANGED <<netifVars, envVars>>
    /\ UNCHANGED auxVars

\* waitForMxStatus( status, ctx, ticks ), called at line 490, is not defined
\* in the file.  It is taken to be xWaitForMxStatus( ctx, status, ticks ), the
\* only wait for a status the file has; the value is its entry point.
waitForMxStatus == "s_entry"

\* Lines 482-491: mx_Connect succeeds or fails; on success wait for
\* station-up.
ConnectAssociate ==
    /\ pc = "c_conn"
    /\ \E ok \in BOOLEAN :
          /\ xErr' = IF ok THEN "IPC_SUCCESS" ELSE "IPC_ERROR"
          /\ pc' = IF ok THEN waitForMxStatus ELSE "c_ret"
    /\ UNCHANGED <<xReturn, boot, ctxInitCalls, statusNotified>>
    /\ UNCHANGED <<kernelVars, waitVars, loopVars, xStatus>>
    /\ UNCHANGED <<netifVars, envVars>>

\* Line 494: the return value.
ConnectReturn ==
    /\ pc = "c_ret"
    /\ cResult' = (xStatus >= MX_STATUS_STA_UP)
    /\ pc' = "c_done"
    /\ UNCHANGED <<kernelVars, waitVars, connRet, xResult, cEntry,
                   lastHandled, reconciled, xStatus>>
    /\ UNCHANGED <<netifVars, envVars>>
    /\ UNCHANGED auxVars

\* Where xConnectToAP returns to (lines 723, 754, 784).
AfterConnect(site) ==
    CASE site = "top" -> "m_wait"
      [] site = "recon" -> "m_reconn"
      [] OTHER -> "m_top"

\* Lines 723, 754, 784: the callers drop the return value.
ConnectDone ==
    /\ pc = "c_done"
    /\ cResult' = FALSE
    /\ cEntry' = MX_STATUS_NONE
    /\ xErr' = "none"
    /\ UNCHANGED <<xReturn, boot, ctxInitCalls, statusNotified>>
    /\ sResult' = "none"
    /\ expOuter' = FALSE
    /\ pc' = AfterConnect(connRet)
    /\ UNCHANGED <<kernelVars, waitCaller, acc, expInner, wResult, connRet,
                   xResult, lastHandled, reconciled, xStatus>>
    /\ UNCHANGED <<netifVars, envVars>>

(***************************************************************************)
(* vLwipStatusCallback (lines 406-453), run by the TCP/IP thread inside    *)
(* the netif call that changed the flags or the address.                   *)
(***************************************************************************)
\* Lines 412-441; line 410 overwrites the remembered address with 0 before
\* the comparison of line 438.
LwipNotifyValue(flags, addr, lastFlags, lastAddr) ==
    LET changed == (flags \ lastFlags) \cup (lastFlags \ flags)
        lastAddrUsed == 0
        flagBits ==
            IF NETIF_FLAG_UP \in changed
            THEN IF NETIF_FLAG_UP \in flags
                 THEN {NET_LWIP_IFUP_BIT}
                 ELSE {NET_LWIP_IFDOWN_BIT}
            ELSE IF NETIF_FLAG_LINK_UP \in changed
                 THEN IF NETIF_FLAG_LINK_UP \in flags
                      THEN {NET_LWIP_LINK_UP_BIT}
                      ELSE {NET_LWIP_LINK_DOWN_BIT}
                 ELSE {}
        addrBits ==
            IF addr # lastAddrUsed THEN {NET_LWIP_IP_CHANGE_BIT} ELSE {}
    IN  flagBits \cup addrBits

\* Lines 443-452.
vLwipStatusCallback(flags, addr) ==
    /\ IF LwipNotifyValue(flags, addr, xLastFlags, xLastAddr) # {}
       THEN NotifySetBits(LwipNotifyValue(flags, addr, xLastFlags, xLastAddr))
       ELSE NoNotify
    /\ xLastAddr' = addr
    /\ xLastFlags' = flags

\* A netif call of the TCP/IP stack (lines 705, 710-711, 511, 516, 522, 760,
\* 771): the interface takes the new flags, address and acquisition state,
\* and the status/link callback registered at lines 691-692 runs when the
\* flags or the address changed.
NetifCall(flags, addr, dhcp) ==
    /\ netifFlags' = flags
    /\ ipAddr' = addr
    /\ dhcpActive' = dhcp
    /\ IF flags # netifFlags \/ addr # ipAddr
       THEN vLwipStatusCallback(flags, addr)
       ELSE NoNotify /\ UNCHANGED <<xLastFlags, xLastAddr>>

LinkIsUp == NETIF_FLAG_LINK_UP \in netifFlags

(***************************************************************************)
(* net_main, start-up (lines 642-714).                                     *)
(***************************************************************************)
InitHandleNotStored ==
    /\ pc = "i_handle"
    /\ pc' = "i_tcpip"
    /\ UNCHANGED <<kernelVars, waitVars, loopVars, xStatus, netifVars>>
    /\ UNCHANGED envVars
    /\ UNCHANGED auxVars

\* Line 651.
InitHandle ==
    /\ pc = "i_handle"
    /\ xNetTaskHandle' = "net"
    /\ pc' = "i_tcpip"
    /\ UNCHANGED <<kernelVars, waitVars, loopVars, xStatus, netifVars>>
    /\ UNCHANGED <<threads, cpPc, lwipReadyDue, statusEvents, reconnectCalls>>
    /\ UNCHANGED auxVars

\* Line 656: the TCP/IP thread starts and will run vLwipReadyCallback.
InitTcpip ==
    /\ pc = "i_tcpip"
    /\ threads' = threads \cup {"tcpip"}
    /\ lwipReadyDue' = TRUE
    /\ pc' = "i_waitready"
    /\ UNCHANGED <<kernelVars, waitVars, loopVars, xStatus, netifVars>>
    /\ UNCHANGED <<xNetTaskHandle, cpPc, statusEvents, reconnectCalls>>
    /\ UNCHANGED auxVars

\* Lines 659-661.
InitWaitReady ==
    /\ pc = "i_waitready"
    /\ WaitBegin("ready")
    /\ UNCHANGED <<expOuter, sResult, loopVars, xStatus>>
    /\ UNCHANGED <<netifVars, envVars>>
    /\ UNCHANGED auxVars

\* Lines 664-672; the value returned by the wait is overwritten.
InitDataPlane ==
    /\ pc = "i_dp"
    /\ wResult' = {}
    /\ supplied' = {}
    /\ threads' = threads \cup {"dataplane"}
    /\ boot' = IF NET_LWIP_READY_BIT \in wResult THEN {"ready"} ELSE {}
    /\ UNCHANGED <<xErr, xReturn, ctxInitCalls, statusNotified>>
    /\ pc' = "i_cp"
    /\ UNCHANGED <<ulNotifiedValue, ucNotifyState, unobserved, waitCaller,
                   acc, expInner, expOuter, sResult, loopVars, xStatus>>
    /\ UNCHANGED <<netifVars, xNetTaskHandle, cpPc, lwipReadyDue,
                   statusEvents, reconnectCalls>>

\* Lines 675-682.
InitControlPlane ==
    /\ pc = "i_cp"
    /\ threads' = threads \cup {"controlplane"}
    /\ pc' = "i_ver"
    /\ UNCHANGED <<kernelVars, waitVars, loopVars, xStatus, netifVars>>
    /\ UNCHANGED <<xNetTaskHandle, cpPc, lwipReadyDue, statusEvents,
                   reconnectCalls>>
    /\ UNCHANGED auxVars

\* vInitializeWifiModule, lines 534-542: mx_RequestVersion.
WifiVersion ==
    /\ pc = "i_ver"
    /\ \E ok \in BOOLEAN :
          /\ boot' = (boot \ {"version", "mac"})
                         \cup (IF ok THEN {"version"} ELSE {})
          /\ pc' = IF ok THEN "i_mac" ELSE "i_delay"
    /\ UNCHANGED <<xErr, xReturn, ctxInitCalls, statusNotified>>
    /\ UNCHANGED <<kernelVars, waitVars, loopVars, xStatus>>
    /\ UNCHANGED <<netifVars, envVars>>

\* vInitializeWifiModule, lines 544-553: mx_GetMacAddress.
WifiMac ==
    /\ pc = "i_mac"
    /\ \E ok \in BOOLEAN :
          /\ boot' = IF ok THEN boot \cup {"mac"} ELSE boot
          /\ pc' = IF ok THEN "i_add" ELSE "i_delay"
    /\ UNCHANGED <<xErr, xReturn, ctxInitCalls, statusNotified>>
    /\ UNCHANGED <<kernelVars, waitVars, loopVars, xStatus>>
    /\ UNCHANGED <<netifVars, envVars>>

\* vInitializeWifiModule, lines 555-558: vTaskDelay, then the loop again.
WifiDelay ==
    /\ pc = "i_delay"
    /\ pc' = "i_ver"
    /\ UNCHANGED <<kernelVars, waitVars, loopVars, xStatus>>
    /\ UNCHANGED <<netifVars, envVars>>
    /\ UNCHANGED auxVars

\* Lines 691-703: the callbacks are set and the interface is registered.
InitNetifAdd ==
    /\ pc = "i_add"
    /\ pc' = "i_setup"
    /\ UNCHANGED <<kernelVars, waitVars, loopVars, xStatus>>
    /\ UNCHANGED <<netifVars, envVars>>
    /\ UNCHANGED auxVars

\* Line 705: netifapi_netif_set_up.
InitNetifSetUp ==
    /\ pc = "i_setup"
    /\ NetifCall(netifFlags \cup {NETIF_FLAG_UP}, ipAddr, dhcpActive)
    /\ pc' = "i_chk"
    /\ UNCHANGED <<waitVars, loopVars, xStatus, envVars>>
    /\ UNCHANGED auxVars

\* Lines 708-714: link up and address acquisition when the status is
\* already station-up or above.
InitAlreadyConnected ==
    /\ pc = "i_chk"
    /\ IF xStatus >= MX_STATUS_STA_UP
       THEN NetifCall(netifFlags \cup {NETIF_FLAG_LINK_UP}, ipAddr, TRUE)
       ELSE NoNotify /\ UNCHANGED netifVars
    /\ pc' = "m_top"
    /\ UNCHANGED <<waitVars, loopVars, xStatus, envVars>>
    /\ UNCHANGED auxVars

(***************************************************************************)
(* net_main, main loop (lines 716-787).                                    *)
(***************************************************************************)
\* Line 714: assigned once, never again.
xLastMxStatus == MX_STATUS_NONE

ConnectWantedNever(status) == FALSE

\* Lines 720-721.
ConnectWanted(status) ==
    status # MX_STATUS_STA_UP /\ status # MX_STATUS_STA_GOT_IP

\* Lines 720-724.
LoopTop ==
    /\ pc = "m_top"
    /\ IF ConnectWanted(xStatus)
       THEN ConnectBegin("top")
       ELSE /\ pc' = "m_wait"
            /\ UNCHANGED connRet
    /\ UNCHANGED <<kernelVars, waitVars, xResult, cEntry, cResult,
                   lastHandled, reconciled, xStatus>>
    /\ UNCHANGED <<netifVars, envVars>>
    /\ UNCHANGED auxVars

\* waitForNotification( bits, ticks ), called at line 731, is not defined in
\* the file.  It is taken to be ulWaitForNotifyBits on NET_EVT_IDX, the only
\* wait on the notification value the file has: a wait for all the bits of
\* its mask with a deadline.
waitForNotification == WaitBegin("main")

\* Line 731: all 32 bits are the target, with a 30 s deadline.
LoopWait ==
    /\ pc = "m_wait"
    /\ waitForNotification
    /\ UNCHANGED <<expOuter, sResult, loopVars, xStatus>>
    /\ UNCHANGED <<netifVars, envVars>>
    /\ UNCHANGED auxVars

\* Lines 731-733: the assignment of xResult and the test for zero.
LoopWoke ==
    /\ pc = "m_woke"
    /\ xResult' = wResult
    /\ wResult' = {}
    /\ supplied' = {}
    /\ reconciled' = "no"
    /\ pc' = IF wResult # {} THEN "m_status" ELSE "m_reconn"
    /\ UNCHANGED <<ulNotifiedValue, ucNotifyState, unobserved, waitCaller,
                   acc, expInner, expOuter, sResult, connRet, cEntry, cResult,
                   lastHandled, xStatus>>
    /\ UNCHANGED <<netifVars, envVars>>
    /\ UNCHANGED auxVars

\* Lines 736-737.
StatusNeedsHandling(result, status) ==
    MX_STATUS_UPDATE_BIT \in result /\ status # xLastMxStatus

LoopStatusCheck ==
    /\ pc = "m_status"
    /\ pc' = IF StatusNeedsHandling(xResult, xStatus)
             THEN "m_handle"
             ELSE "m_recon"
    /\ UNCHANGED <<kernelVars, waitVars, loopVars, xStatus>>
    /\ UNCHANGED <<netifVars, envVars>>
    /\ UNCHANGED auxVars

\* vHandleMxStatusUpdate, lines 505-524: the link state wanted for a status;
\* the default branch is the fail-safe link up.
LinkUpWanted(status) ==
    CASE status \in {MX_STATUS_STA_UP, MX_STATUS_STA_GOT_IP, MX_STATUS_AP_UP}
           -> TRUE
      [] status \in {MX_STATUS_NONE, MX_STATUS_STA_DOWN, MX_STATUS_AP_DOWN}
           -> FALSE
      [] OTHER -> TRUE

\* Line 739: vHandleMxStatusUpdate reads the status again.
HandleMxStatusUpdate ==
    /\ pc = "m_handle"
    /\ NetifCall(IF LinkUpWanted(xStatus)
                 THEN netifFlags \cup {NETIF_FLAG_LINK_UP}
                 ELSE netifFlags \ {NETIF_FLAG_LINK_UP},
                 ipAddr, dhcpActive)
    /\ lastHandled' = xStatus
    /\ pc' = "m_recon"
    /\ UNCHANGED <<waitVars, connRet, xResult, cEntry, cResult, reconciled,
                   xStatus, envVars>>
    /\ UNCHANGED auxVars

\* Lines 747-749: "if( xResult ) if( xResult & vHandleMxStatusUpdate )".  The
\* second condition masks the flags with the address of a function; what it
\* yields is not fixed by the source, so the chain below may be skipped.
ReconcileSkip ==
    /\ pc = "m_recon"
    /\ reconciled' = "skip"
    /\ pc' = "m_reconn"
    /\ UNCHANGED <<kernelVars, waitVars, connRet, xResult, cEntry, cResult,
                   lastHandled, xStatus>>
    /\ UNCHANGED <<netifVars, envVars>>
    /\ UNCHANGED auxVars

\* Lines 752-755: first branch of the chain.
ReconcileConnect ==
    /\ pc = "m_recon"
    /\ xStatus < MX_STATUS_STA_UP
    /\ reconciled' = "connect"
    /\ ConnectBegin("recon")
    /\ UNCHANGED <<kernelVars, waitVars, xResult, cEntry, cResult,
                   lastHandled, xStatus>>
    /\ UNCHANGED <<netifVars, envVars>>
    /\ UNCHANGED auxVars

ReconcileReleaseResetsStatus ==
    /\ pc = "m_recon"
    /\ ~(xStatus < MX_STATUS_STA_UP)
    /\ ~LinkIsUp /\ ipAddr # 0
    /\ NetifCall(netifFlags, 0, FALSE)
    /\ xStatus' = MX_STATUS_NONE
    /\ reconciled' = "pair"
    /\ pc' = "m_reconn"
    /\ UNCHANGED <<waitVars, connRet, xResult, cEntry, cResult, lastHandled,
                   envVars>>
    /\ UNCHANGED auxVars

\* Lines 756-766: link down with an address assigned.
ReconcileRelease ==
    /\ pc = "m_recon"
    /\ ~(xStatus < MX_STATUS_STA_UP)
    /\ ~LinkIsUp /\ ipAddr # 0
    /\ NetifCall(netifFlags, 0, FALSE)
    /\ reconciled' = "pair"
    /\ pc' = "m_reconn"
    /\ UNCHANGED <<waitVars, connRet, xResult, cEntry, cResult, lastHandled,
                   xStatus, envVars>>
    /\ UNCHANGED auxVars

\* Lines 767-777: link up without an address.
ReconcileStart ==
    /\ pc = "m_recon"
    /\ ~(xStatus < MX_STATUS_STA_UP)
    /\ ~(~LinkIsUp /\ ipAddr # 0)
    /\ LinkIsUp /\ ipAddr = 0
    /\ NetifCall(netifFlags, ipAddr, TRUE)
    /\ reconciled' = "pair"
    /\ pc' = "m_reconn"
    /\ UNCHANGED <<waitVars, connRet, xResult, cEntry, cResult, lastHandled,
                   xStatus, envVars>>
    /\ UNCHANGED auxVars

\* Lines 752-777: no branch of the chain applies.
ReconcileNothing ==
    /\ pc = "m_recon"
    /\ ~(xStatus < MX_STATUS_STA_UP)
    /\ ~(~LinkIsUp /\ ipAddr # 0)
    /\ ~(LinkIsUp /\ ipAddr = 0)
    /\ reconciled' = "pair"
    /\ pc' = "m_reconn"
    /\ UNCHANGED <<kernelVars, waitVars, connRet, xResult, cEntry, cResult,
                   lastHandled, xStatus>>
    /\ UNCHANGED <<netifVars, envVars>>
    /\ UNCHANGED auxVars

ReconnectObservedNever(result) == FALSE

\* Line 781.
ReconnectObserved(result) == ASYNC_REQUEST_RECONNECT_BIT \in result

\* Line 781.
LoopReconnectCheck ==
    /\ pc = "m_reconn"
    /\ pc' = IF ReconnectObserved(xResult)
             THEN "m_disc"
             ELSE "m_top"
    /\ xResult' = {}
    /\ reconciled' = "no"
    /\ UNCHANGED <<kernelVars, waitVars, connRet, cEntry, cResult,
                   lastHandled, xStatus>>
    /\ UNCHANGED <<netifVars, envVars>>
    /\ UNCHANGED auxVars

\* Lines 783-784: mx_Disconnect (result ignored), then xConnectToAP.
LoopDisconnect ==
    /\ pc = "m_disc"
    /\ ConnectBegin("reconn")
    /\ UNCHANGED <<kernelVars, waitVars, xResult, cEntry, cResult,
                   lastHandled, reconciled, xStatus>>
    /\ UNCHANGED <<netifVars, envVars>>
    /\ UNCHANGED auxVars

(***************************************************************************)
(* The other execution contexts.                                           *)
(***************************************************************************)
\* vLwipReadyCallback (lines 455-466), run once by the TCP/IP thread.
LwipReadyCallback ==
    /\ lwipReadyDue
    /\ lwipReadyDue' = FALSE
    /\ IF xNetTaskHandle # "NULL"
       THEN NotifySetBits({NET_LWIP_READY_BIT})
       ELSE NoNotify
    /\ UNCHANGED <<pc, waitVars, loopVars, xStatus, netifVars>>
    /\ UNCHANGED <<xNetTaskHandle, threads, cpPc, statusEvents,
                   reconnectCalls>>
    /\ UNCHANGED auxVars

MxStatusNotifyFirst ==
    /\ "controlplane" \in threads
    /\ cpPc = "idle"
    /\ statusEvents < MaxStatusEvents
    /\ NotifySetBits({MX_STATUS_UPDATE_BIT})
    /\ statusNotified' = statusNotified + 1
    /\ cpPc' = "write"
    /\ UNCHANGED <<pc, waitVars, loopVars, xStatus, netifVars>>
    /\ UNCHANGED <<xNetTaskHandle, threads, lwipReadyDue, statusEvents,
                   reconnectCalls>>
    /\ UNCHANGED <<xErr, xReturn, boot, ctxInitCalls>>

\* vMxStatusNotify, line 396: the control-plane thread writes the status.
MxStatusWrite ==
    /\ "controlplane" \in threads
    /\ cpPc = "idle"
    /\ statusEvents < MaxStatusEvents
    /\ statusEvents' = statusEvents + 1
    /\ \E xNewStatus \in StatusValues : xStatus' = xNewStatus
    /\ cpPc' = "notify"
    /\ UNCHANGED <<pc, kernelVars, waitVars, loopVars, netifVars>>
    /\ UNCHANGED <<xNetTaskHandle, threads, lwipReadyDue, reconnectCalls>>
    /\ UNCHANGED auxVars

\* vMxStatusNotify, lines 398-401.
MxStatusNotify ==
    /\ cpPc = "notify"
    /\ NotifySetBits({MX_STATUS_UPDATE_BIT})
    /\ statusNotified' = statusNotified + 1
    /\ cpPc' = "idle"
    /\ UNCHANGED <<pc, waitVars, loopVars, xStatus, netifVars>>
    /\ UNCHANGED <<xNetTaskHandle, threads, lwipReadyDue, statusEvents,
                   reconnectCalls>>
    /\ UNCHANGED <<xErr, xReturn, boot, ctxInitCalls>>

ReconnectBitsAndStatus == {ASYNC_REQUEST_RECONNECT_BIT, MX_STATUS_UPDATE_BIT}

\* Line 379: the value ORed into the notification value of the manager task.
ReconnectBits == {ASYNC_REQUEST_RECONNECT_BIT}

\* net_request_reconnect (lines 372-383), from any context at any time.  The
\* return value is pdFALSE (line 374) unless the handle is set; a
\* notification with eSetBits always returns pdPASS.
RequestReconnect ==
    /\ reconnectCalls < MaxReconnects
    /\ reconnectCalls' = reconnectCalls + 1
    /\ IF xNetTaskHandle # "NULL"
       THEN NotifySetBits(ReconnectBits) /\ xReturn' = "pdPASS"
       ELSE NoNotify /\ xReturn' = "pdFALSE"
    /\ UNCHANGED <<xErr, boot, ctxInitCalls, statusNotified>>
    /\ UNCHANGED <<pc, waitVars, loopVars, xStatus, netifVars>>
    /\ UNCHANGED <<xNetTaskHandle, threads, cpPc, lwipReadyDue, statusEvents>>

\* The TCP/IP thread binds an address while acquisition runs on an
\* interface whose link is up (started at lines 711 and 771).
DhcpBound ==
    /\ dhcpActive /\ LinkIsUp /\ ipAddr = 0
    /\ \E a \in 1 .. MaxAddr : NetifCall(netifFlags, a, dhcpActive)
    /\ UNCHANGED <<pc, waitVars, loopVars, xStatus, envVars>>
    /\ UNCHANGED auxVars

(***************************************************************************)
(* The state when net_main is entered.  xCtx is a local of net_main and    *)
(* nothing assigns xCtx.xStatus before its first read (xInitializeContexts *)
(* is not called), so the status starts with any value.                    *)
(***************************************************************************)
Init ==
    /\ pc = "i_handle"
    /\ waitCaller = "ready"
    /\ connRet = "top"
    /\ xNetTaskHandle = "NULL"
    /\ ulNotifiedValue = {}
    /\ ucNotifyState = "NOT_WAITING"
    /\ acc = {}
    /\ expInner = FALSE
    /\ expOuter = FALSE
    /\ wResult = {}
    /\ sResult = "none"
    /\ xResult = {}
    /\ xStatus \in StatusValues
    /\ cEntry = MX_STATUS_NONE
    /\ cResult = FALSE
    /\ threads = {}
    /\ cpPc = "idle"
    /\ lwipReadyDue = FALSE
    /\ netifFlags = {}
    /\ ipAddr = 0
    /\ dhcpActive = FALSE
    /\ xLastFlags = {}
    /\ xLastAddr = 0
    /\ statusEvents = 0
    /\ reconnectCalls = 0
    /\ unobserved = {}
    /\ supplied = {}
    /\ lastHandled = MaxStatusValue + 1
    /\ reconciled = "no"
    /\ xErr = "none"
    /\ xReturn = "none"
    /\ boot = {}
    /\ ctxInitCalls = 0
    /\ statusNotified = 0

Next ==
    \/ WaitCall \/ WaitWake
    \/ ExpireOuter \/ ExpireInner
    \/ StatusEntry \/ StatusLoop \/ StatusCheck \/ StatusReturn
    \/ ConnectEntry \/ ConnectMode \/ ConnectAssociate \/ ConnectReturn
    \/ ConnectDone
    \/ InitHandle \/ InitTcpip \/ InitWaitReady \/ InitDataPlane
    \/ InitControlPlane \/ WifiVersion \/ WifiMac \/ WifiDelay
    \/ InitNetifAdd \/ InitNetifSetUp \/ InitAlreadyConnected
    \/ LoopTop \/ LoopWait \/ LoopWoke \/ LoopStatusCheck
    \/ HandleMxStatusUpdate
    \/ ReconcileSkip \/ ReconcileConnect \/ ReconcileRelease
    \/ ReconcileStart \/ ReconcileNothing
    \/ LoopReconnectCheck \/ LoopDisconnect
    \/ LwipReadyCallback \/ MxStatusWrite \/ MxStatusNotify
    \/ RequestReconnect \/ DhcpBound

Spec == Init /\ [][Next]_vars

(***************************************************************************)
(* vLwipStatusCallback on its own: the TCP/IP thread invokes it for an     *)
(* interface whose flags and address have any value, starting from the     *)
(* state in which net_main has registered the interface (line 703).  The   *)
(* flags are also written by the interface's init function and driver,     *)
(* which are not part of this file, so an invocation may find both flags   *)
(* different from the ones it saw last.                                    *)
(***************************************************************************)
AdapterInit ==
    /\ pc = "i_setup"
    /\ waitCaller = "ready"
    /\ connRet = "top"
    /\ xNetTaskHandle = "net"
    /\ ulNotifiedValue = {}
    /\ ucNotifyState = "NOT_WAITING"
    /\ acc = {}
    /\ expInner = FALSE
    /\ expOuter = FALSE
    /\ wResult = {}
    /\ sResult = "none"
    /\ xResult = {}
    /\ xStatus \in StatusValues
    /\ cEntry = MX_STATUS_NONE
    /\ cResult = FALSE
    /\ threads = {"tcpip", "dataplane", "controlplane"}
    /\ cpPc = "idle"
    /\ lwipReadyDue = FALSE
    /\ netifFlags = {}
    /\ ipAddr = 0
    /\ dhcpActive = FALSE
    /\ xLastFlags = {}
    /\ xLastAddr = 0
    /\ statusEvents = 0
    /\ reconnectCalls = 0
    /\ unobserved = {}
    /\ supplied = {}
    /\ lastHandled = MaxStatusValue + 1
    /\ reconciled = "no"
    /\ xErr = "none"
    /\ xReturn = "none"
    /\ boot = {"ready", "version", "mac"}
    /\ ctxInitCalls = 0
    /\ statusNotified = 0

AdapterInvoke ==
    /\ \E flags \in SUBSET {NETIF_FLAG_UP, NETIF_FLAG_LINK_UP},
          addr \in 0 .. MaxAddr :
          /\ netifFlags' = flags
          /\ ipAddr' = addr
          /\ vLwipStatusCallback(flags, addr)
    /\ UNCHANGED <<pc, waitVars, loopVars, xStatus, dhcpActive, envVars,
                   auxVars>>

AdapterNext == AdapterInvoke

AdapterSpec == AdapterInit /\ [][AdapterNext]_vars

(***************************************************************************)
(* Progress.  The manager task is scheduled whenever it can run (the       *)
(* tasks that preempt it block), and the tick count advances, so a         *)
(* deadline that is running elapses.                                       *)
(***************************************************************************)
ManagerStep ==
    \/ WaitCall \/ WaitWake
    \/ StatusEntry \/ StatusLoop \/ StatusCheck \/ StatusReturn
    \/ ConnectEntry \/ ConnectMode \/ ConnectAssociate \/ ConnectReturn
    \/ ConnectDone
    \/ InitHandle \/ InitTcpip \/ InitWaitReady \/ InitDataPlane
    \/ InitControlPlane \/ WifiVersion \/ WifiMac \/ WifiDelay
    \/ InitNetifAdd \/ InitNetifSetUp \/ InitAlreadyConnected
    \/ LoopTop \/ LoopWait \/ LoopWoke \/ LoopStatusCheck
    \/ HandleMxStatusUpdate
    \/ ReconcileSkip \/ ReconcileConnect \/ ReconcileRelease
    \/ ReconcileStart \/ ReconcileNothing
    \/ LoopReconnectCheck \/ LoopDisconnect

FairSpec ==
    /\ Spec
    /\ WF_vars(ManagerStep)
    /\ WF_vars(ExpireInner)
    /\ WF_vars(ExpireOuter)

(***************************************************************************)
(* Properties.                                                             *)
(***************************************************************************)
\* The manager is at the return of ulWaitForNotifyBits; wResult is the value
\* returned.
WaitReturned == pc \in {"i_dp", "s_chk", "m_woke"}

\* The step of ulWaitForNotifyBits that ends the call.
WaitEnds == pc = "w_wake" /\ pc' \notin WaitPcs

\* Flags whose notification the manager has not yet had a chance to read.
Unsignalled ==
    IF pc \in WaitPcs THEN ulNotifiedValue \ acc ELSE ulNotifiedValue

\* C1: a flag set by a producer and not yet observed stays in the pending
\* value whatever the target of the wait in progress, the manager task is
\* marked as notified while such a flag waits for a later wait, and a wait
\* that ends returns every unobserved flag of its target.
C1_FlagsOutsideTargetPreserved ==
    /\ [](unobserved \subseteq ulNotifiedValue)
    /\ [](Unsignalled # {} => ucNotifyState = "RECEIVED")
    /\ [][WaitEnds => (unobserved \cap ulTargetBits) \subseteq wResult']_vars

\* ReconnectRequested was read, and left pending, by the wait of
\* xWaitForMxStatus on StatusUpdated.
C1_Witness ==
    /\ pc = "s_chk"
    /\ ASYNC_REQUEST_RECONNECT_BIT \in unobserved
    /\ ASYNC_REQUEST_RECONNECT_BIT \in ulNotifiedValue
    /\ ucNotifyState = "RECEIVED"
    /\ reconnectCalls >= 1

C4_WaitForStatusContract ==
    /\ [][(pc \in {"s_entry", "s_ret"} /\ pc' = "c_ret") =>
             /\ (sResult' = "pdTRUE") <=> (xStatus = xTargetStatus)
             /\ (sResult' = "pdFALSE") => expOuter]_vars
    /\ [][(pc = "s_entry" /\ pc' # pc /\ xStatus = xTargetStatus) =>
             pc' = "c_ret"]_vars
    /\ [][(pc = "s_chk" /\ pc' # pc /\ ~expOuter) => pc' = "s_loop"]_vars

\* No status handled yet.
NoStatus == MaxStatusValue + 1

\* The step that runs vHandleMxStatusUpdate.
HandlesStatus == pc = "m_handle" /\ pc' = "m_recon"

\* C5: the link up/down action runs only for a status that differs from the
\* one handled last.
C5_StatusHandledOnce == [][HandlesStatus => xStatus # lastHandled]_vars

\* The last status handled, None before the first (line 714).
LastHandledOrNone ==
    IF lastHandled = NoStatus THEN MX_STATUS_NONE ELSE lastHandled

\* C6: a wake with StatusUpdated and a status other than the last one handled
\* is handled, and handling sets the link by the status: up for StationUp,
\* StationGotIp, ApUp and unrecognized values, down for None, StationDown,
\* ApDown.
C6_StatusSetsLink ==
    /\ [][(/\ pc = "m_status"
           /\ pc' # pc
           /\ MX_STATUS_UPDATE_BIT \in xResult
           /\ xStatus # LastHandledOrNone) => pc' = "m_handle"]_vars
    /\ [][HandlesStatus =>
             (LinkIsUp' <=>
                 xStatus \notin {MX_STATUS_NONE, MX_STATUS_STA_DOWN,
                                 MX_STATUS_AP_DOWN})]_vars

\* The two states a reconciliation pass may leave.
Reconciled ==
    \/ dhcpActive /\ LinkIsUp
    \/ ~dhcpActive /\ ipAddr = 0 /\ ~LinkIsUp

\* C7: after a wake whose reconciliation chain (lines 752-777) ran, the
\* interface is in one of the two reconciled states.
C7_ReconciliationOutcome ==
    (pc = "m_reconn" /\ reconciled \in {"connect", "pair"}) => Reconciled

\* C8: every wake of the main-loop wait, also one with no flag observed,
\* reaches the reconciliation of lines 747-777.
C8_ReconcileOnEveryWake == pc = "m_reconn" => reconciled # "no"

\* C9: only the step of vMxStatusNotify that writes the field changes the
\* status; no step of the manager task does.
C9_StatusSingleWriter ==
    [][/\ xStatus' # xStatus => (cpPc = "idle" /\ cpPc' = "notify")
       /\ pc' # pc => xStatus' = xStatus]_vars

\* The manager handled a status written by the bridge callback (ApDown, link
\* set down) and its reconciliation released the address bound earlier; the
\* status is still the one the callback wrote.
C9_Witness ==
    /\ pc = "m_reconn"
    /\ reconciled = "pair"
    /\ statusEvents >= 1
    /\ NET_LWIP_IP_CHANGE_BIT \in xResult
    /\ ~dhcpActive /\ ipAddr = 0 /\ ~LinkIsUp
    /\ xStatus = MX_STATUS_AP_DOWN
    /\ lastHandled = MX_STATUS_AP_DOWN

\* The part of xConnectToAP that calls the transport and waits.
InConnectBody ==
    \/ pc \in {"c_mode", "c_conn", "s_entry", "s_loop", "s_chk", "s_ret"}
    \/ pc \in WaitPcs /\ waitCaller = "status"

\* C10: xConnectToAP calls the transport, and waits, only when the status it
\* read at entry is None or StationDown; with any other status it goes to its
\* return without either.
C10_ConnectOnlyWhenDown ==
    /\ InConnectBody => cEntry \in {MX_STATUS_NONE, MX_STATUS_STA_DOWN}
    /\ (pc = "c_ret" /\ cEntry \notin {MX_STATUS_NONE, MX_STATUS_STA_DOWN})
          => sResult = "none"

\* xConnectToAP was entered with StationGotIp and is at its return.
C10_Witness ==
    /\ pc = "c_ret"
    /\ cEntry = MX_STATUS_STA_GOT_IP
    /\ sResult = "none"

\* The manager is inside xConnectToAP or a function it calls.
InConnect ==
    \/ pc \in {"c_entry", "c_mode", "c_conn", "c_ret", "s_entry", "s_loop",
               "s_chk", "s_ret"}
    \/ pc \in WaitPcs /\ waitCaller = "status"

\* C11: when mx_Connect fails, xConnectToAP does not wait for station-up,
\* returns failure, and no step of it changes the status, whatever the
\* control-plane callback does meanwhile.
C11_ConnectFailureReturnsFailure ==
    /\ [](xErr = "IPC_ERROR" => sResult = "none")
    /\ []((pc = "c_done" /\ xErr = "IPC_ERROR") => ~cResult)
    /\ [][(InConnect /\ pc' # pc) => xStatus' = xStatus]_vars

\* C12: when mx_Connect succeeds, xConnectToAP goes on to wait for
\* station-up, and it returns success exactly when that wait reported the
\* status reached.
C12_ConnectReturnsWaitOutcome ==
    /\ [][(pc = "c_conn" /\ xErr' = "IPC_SUCCESS") => pc' = "s_entry"]_vars
    /\ []((pc = "c_done" /\ xErr = "IPC_SUCCESS") =>
             (cResult <=> sResult = "pdTRUE"))

\* A step of net_request_reconnect.
RequestReconnectCalled == reconnectCalls' # reconnectCalls

\* C13: net_request_reconnect is one step that leaves the manager task where
\* it is; without a published handle it changes no notification state and
\* returns pdFALSE, otherwise it ORs ReconnectRequested into the pending
\* value, returns pdPASS, and changes neither another flag nor the status.
C13_RequestReconnectEffect ==
    [][RequestReconnectCalled =>
          /\ pc' = pc
          /\ xStatus' = xStatus
          /\ UNCHANGED <<waitVars, loopVars, netifVars, xNetTaskHandle,
                         threads, cpPc>>
          /\ IF xNetTaskHandle = "NULL"
             THEN /\ xReturn' = "pdFALSE"
                  /\ UNCHANGED <<ulNotifiedValue, ucNotifyState>>
             ELSE /\ xReturn' = "pdPASS"
                  /\ ulNotifiedValue' =
                        ulNotifiedValue \cup {ASYNC_REQUEST_RECONNECT_BIT}
                  /\ ucNotifyState' = "RECEIVED"]_vars

\* net_request_reconnect succeeded while the manager was waiting for
\* station-up inside xConnectToAP.
C13_Witness ==
    /\ xReturn = "pdPASS"
    /\ pc = "w_wake"
    /\ waitCaller = "status"
    /\ ASYNC_REQUEST_RECONNECT_BIT \in ulNotifiedValue
    /\ MX_STATUS_UPDATE_BIT \notin ulNotifiedValue
    /\ reconnectCalls >= 1

\* C14: a wake that carries ReconnectRequested leads to mx_Disconnect and, in
\* the same iteration, to a call of xConnectToAP that reaches mx_Connect
\* whatever the status is when it is called.
C14_ReconnectForcesAssociation ==
    /\ [][(/\ pc = "m_reconn"
           /\ pc' # pc
           /\ ASYNC_REQUEST_RECONNECT_BIT \in xResult) => pc' = "m_disc"]_vars
    /\ [][(pc = "m_disc" /\ pc' # pc) =>
             (pc' = "c_entry" /\ connRet' = "reconn")]_vars
    /\ []((pc = "c_ret" /\ connRet = "reconn") => xErr # "none")

\* The manager has reached the main loop of net_main (line 717).
InMainLoop ==
    \/ pc \in {"m_top", "m_wait", "m_woke", "m_status", "m_handle", "m_recon",
               "m_reconn", "m_disc", "c_entry", "c_mode", "c_conn", "c_ret",
               "c_done", "s_entry", "s_loop", "s_chk", "s_ret"}
    \/ pc \in WaitPcs /\ waitCaller # "ready"

\* C15: a ReconnectRequested flag set by net_request_reconnect and not yet
\* returned by the main wait, with the manager in its main loop (waiting in
\* the main wait, waiting inside xConnectToAP, or running its handlers), is
\* followed by mx_Disconnect.
C15_ReconnectEventuallyHandled ==
    (InMainLoop /\ ASYNC_REQUEST_RECONNECT_BIT \in unobserved)
        ~> (pc = "m_disc")

\* The manager is about to call mx_Disconnect for a request that succeeded;
\* the main wait has returned the flag and it is no longer pending.
C15_Witness ==
    /\ pc = "m_disc"
    /\ xReturn = "pdPASS"
    /\ ASYNC_REQUEST_RECONNECT_BIT \notin unobserved
    /\ ASYNC_REQUEST_RECONNECT_BIT \notin ulNotifiedValue

\* The manager is still in the start-up part of net_main that comes before
\* the registration of the interface (lines 651-685).
BeforeRegistration ==
    \/ pc \in {"i_handle", "i_tcpip", "i_waitready", "i_dp", "i_cp", "i_ver",
               "i_mac", "i_delay"}
    \/ pc \in WaitPcs /\ waitCaller = "ready"

\* C16: the wait for LinkStackReady has no deadline and returns only with
\* the flag; the interface is registered and xConnectToAP is called only
\* after that flag was returned and both queries of one pass succeeded; a
\* failed query leads to the delay, and the delay to the version query again.
C16_StartupOrdering ==
    /\ []((pc \in WaitPcs /\ waitCaller = "ready") => ~expInner)
    /\ [](pc = "i_dp" => NET_LWIP_READY_BIT \in wResult)
    /\ [](~BeforeRegistration => boot = {"ready", "version", "mac"})
    /\ [][(pc = "i_ver" /\ pc' # pc) =>
             \/ pc' = "i_mac" /\ "version" \in boot'
             \/ pc' = "i_delay" /\ "version" \notin boot']_vars
    /\ [][(pc = "i_mac" /\ pc' # pc) =>
             \/ pc' = "i_add" /\ "mac" \in boot'
             \/ pc' = "i_delay" /\ "mac" \notin boot']_vars
    /\ [][(pc = "i_delay" /\ pc' # pc) => pc' = "i_ver"]_vars

\* The first call of xConnectToAP, from the top of the main loop, with the
\* interface registered and set up.
C16_Witness ==
    /\ pc = "c_entry"
    /\ connRet = "top"
    /\ boot = {"ready", "version", "mac"}
    /\ NETIF_FLAG_UP \in netifFlags
    /\ lastHandled = NoStatus
    /\ NET_LWIP_READY_BIT \notin ulNotifiedValue

\* C17: an invocation of vLwipStatusCallback signals IpAddressChanged when
\* the address differs from the one it saw at its previous invocation, and
\* does not signal it when the address is the same.
C17_IpChangeOnlyOnChange ==
    /\ [][((netifFlags' # netifFlags \/ ipAddr' # ipAddr)
              /\ ipAddr' # xLastAddr) =>
             NET_LWIP_IP_CHANGE_BIT \in ulNotifiedValue']_vars
    /\ [][(/\ netifFlags' # netifFlags
           /\ ipAddr' = xLastAddr
           /\ NET_LWIP_IP_CHANGE_BIT \notin ulNotifiedValue) =>
             NET_LWIP_IP_CHANGE_BIT \notin ulNotifiedValue']_vars

\* The transitions between two values of the interface flags.
FlagTransitions(old, new) ==
    (IF NETIF_FLAG_UP \in new \ old THEN {NET_LWIP_IFUP_BIT} ELSE {})
    \cup (IF NETIF_FLAG_UP \in old \ new THEN {NET_LWIP_IFDOWN_BIT} ELSE {})
    \cup (IF NETIF_FLAG_LINK_UP \in new \ old
          THEN {NET_LWIP_LINK_UP_BIT}
          ELSE {})
    \cup (IF NETIF_FLAG_LINK_UP \in old \ new
          THEN {NET_LWIP_LINK_DOWN_BIT}
          ELSE {})

TransitionBits ==
    {NET_LWIP_IFUP_BIT, NET_LWIP_IFDOWN_BIT, NET_LWIP_LINK_UP_BIT,
     NET_LWIP_LINK_DOWN_BIT}

\* C18: an invocation of vLwipStatusCallback signals every transition
\* between the flags it saw last and the flags of the interface, both the
\* administrative and the link one when both changed, and no transition of
\* a flag that did not change.
C18_AdapterEmitsEveryTransition ==
    [][/\ FlagTransitions(xLastFlags, netifFlags') \subseteq ulNotifiedValue'
       /\ ((ulNotifiedValue' \ ulNotifiedValue) \cap TransitionBits)
              \subseteq FlagTransitions(xLastFlags, netifFlags')]_vars

\* C19: xInitializeContexts has run exactly once when the first of the
\* data-plane and control-plane threads is started, and never runs again.
C19_ContextsInitializedOnce ==
    /\ ctxInitCalls <= 1
    /\ ({"dataplane", "controlplane"} \cap threads # {}) => ctxInitCalls = 1

\* C20: in the main loop, if from some point on the status stays below
\* station-up, the manager calls mx_Connect again and again.
C20_KeepRetrying ==
    <>[](InMainLoop /\ xStatus < MX_STATUS_STA_UP) => []<>(pc = "c_conn")

\* A further attempt from the top of the loop: the status is StationDown
\* and was already handled in an earlier iteration.
C20_Witness ==
    /\ pc = "c_conn"
    /\ connRet = "top"
    /\ xStatus = MX_STATUS_STA_DOWN
    /\ lastHandled = MX_STATUS_STA_DOWN
    /\ cEntry = MX_STATUS_STA_DOWN

\* vMxStatusNotify has delivered StationUp to the manager in its main loop:
\* the status field holds it, the callback has returned, and the
\* StatusUpdated flag it set has not yet been observed by a wait.
StationUpDelivered ==
    /\ InMainLoop
    /\ xStatus = MX_STATUS_STA_UP
    /\ cpPc = "idle"
    /\ MX_STATUS_UPDATE_BIT \in unobserved

\* C21: after vMxStatusNotify delivered StationUp with the link of the
\* interface down, wherever in its main loop the manager is at that time
\* (the main wait, the wait inside xConnectToAP, the handlers), the manager
\* brings the link up unless the status changes again; and the chain of
\* lines 752-777, run with the status at station-up or above, the link up
\* and no address assigned, starts the address acquisition.
C21_StationUpBringsLinkUp ==
    /\ (StationUpDelivered /\ ~LinkIsUp)
           ~> (LinkIsUp \/ xStatus # MX_STATUS_STA_UP)
    /\ [][(/\ pc = "m_recon"
           /\ reconciled' = "pair"
           /\ xStatus >= MX_STATUS_STA_UP
           /\ LinkIsUp
           /\ ipAddr = 0) => dhcpActive']_vars

\* C22: a wake of the main wait (line 731) by a notification that carries a
\* flag ends the wait, whether or not its deadline has elapsed and whichever
\* other flags are set, and the value returned holds the flags that were
\* pending.
C22_MainWaitEndsOnAnyFlag ==
    [][(/\ pc = "w_wake"
        /\ waitCaller = "main"
        /\ ucNotifyState = "RECEIVED"
        /\ ulNotifiedValue # {}
        /\ pc' # pc) =>
          (pc' = "m_woke" /\ ulNotifiedValue \subseteq wResult')]_vars

\* A step of vMxStatusNotify: the write of the status or the notification.
MxStatusNotifyRuns == statusEvents' # statusEvents \/ cpPc' # cpPc

\* A step in which vLwipStatusCallback runs: the interface changes its flags
\* or its address, or the callback updates what it remembers.
LwipStatusCallbackRuns ==
    \/ netifFlags' # netifFlags
    \/ ipAddr' # ipAddr
    \/ xLastFlags' # xLastFlags
    \/ xLastAddr' # xLastAddr

\* C23: the handle of the manager task is stored before the TCP/IP thread or
\* a collaborator thread exists and before the interface callbacks are
\* registered, it is never unset again, and no step of vMxStatusNotify or of
\* vLwipStatusCallback happens while it is unset.
C23_HandlePublishedBeforeProducers ==
    /\ [](threads # {} => xNetTaskHandle # "NULL")
    /\ [](lwipReadyDue => xNetTaskHandle # "NULL")
    /\ [](pc \in {"i_add", "i_setup", "i_chk"} => xNetTaskHandle # "NULL")
    /\ [](InMainLoop => xNetTaskHandle # "NULL")
    /\ [][xNetTaskHandle # "NULL" => xNetTaskHandle' = xNetTaskHandle]_vars
    /\ [][MxStatusNotifyRuns => xNetTaskHandle # "NULL"]_vars
    /\ [][LwipStatusCallbackRuns => xNetTaskHandle # "NULL"]_vars

\* vMxStatusNotify is between its write and its notification right after the
\* control-plane thread was created, with the interface not yet registered.
C23_Witness ==
    /\ cpPc = "notify"
    /\ pc = "i_ver"
    /\ xNetTaskHandle = "net"
    /\ statusEvents = 1
    /\ xLastFlags = {}

\* The manager holds or can still read a StatusUpdated flag: pending,
\* accumulated by the wait in progress, or in the value of the main loop.
StatusFlagVisible ==
    MX_STATUS_UPDATE_BIT \in (ulNotifiedValue \cup acc \cup xResult)

\* C24: vMxStatusNotify writes the status before it raises StatusUpdated:
\* the step that writes raises nothing, the step that raises leaves the
\* status as written, and the writes done are never fewer than the flags
\* raised; so whenever the manager sees a StatusUpdated flag, a callback has
\* raised it and the status it reads is the one of that callback's write or
\* of a later write.
C24_StatusWrittenBeforeFlag ==
    /\ [](statusNotified <= statusEvents)
    /\ [](StatusFlagVisible => statusNotified >= 1)
    /\ [][statusEvents' # statusEvents =>
             (statusNotified' = statusNotified
                 /\ ulNotifiedValue' = ulNotifiedValue)]_vars
    /\ [][statusNotified' # statusNotified =>
             (/\ statusNotified' = statusEvents
              /\ xStatus' = xStatus
              /\ MX_STATUS_UPDATE_BIT \in ulNotifiedValue')]_vars

\* The manager is about to read the status for a StatusUpdated flag raised
\* by the first callback while the second callback has written its status
\* and not yet raised its flag.
C24_Witness ==
    /\ pc = "m_handle"
    /\ MX_STATUS_UPDATE_BIT \in xResult
    /\ statusNotified = 1
    /\ statusEvents = 2
    /\ cpPc = "notify"

=============================================================================
